---- MODULE Spec2Model ----
(***************************************************************************)
(* Model of deepkit.context (src/deepkit/context.py): the Context object   *)
(* with its rolling window of timing samples, the three rx subjects        *)
(* buffered by a 1-second interval (metrics, speed, log) and shutdown.     *)
(*                                                                         *)
(* Time is the value time.time() returns, in whole seconds.  Floats are    *)
(* exact rationals [num, den] in lowest terms; bytes are numbers 0..255;   *)
(* text is a sequence of one-character strings.                            *)
(***************************************************************************)
EXTENDS Integers, Sequences, FiniteSets, TLC

VARIABLES
    now,                      \* the clock read by time.time()
    shutting_down,            \* Context.shutting_down
    defined_metrics,          \* keys of Context.defined_metrics
    last_iteration_time,      \* Context.last_iteration_time
    last_batch_time,          \* Context.last_batch_time
    job_iteration,            \* Context.job_iteration
    job_iterations,           \* Context.job_iterations
    seconds_per_iteration,    \* Context.seconds_per_iteration
    seconds_per_iterations,   \* Context.seconds_per_iterations
    metric_buf,               \* open buffer window of metric_subject
    speed_buf,                \* open buffer window of speed_report_subject
    log_buf,                  \* open buffer window of log_subject
    stopped,                  \* is_stopped of each subject
    completions,              \* on_completed() calls received by each subject
    sent,                     \* client.job_action calls, in order
    patched,                  \* job state as written by client.patch
    closeCalls,               \* client.shutdown() calls
    sentAtClose,              \* Len(sent) when client.shutdown() was called
    shutdownCalls,            \* Context.shutdown() calls
    nCalls,                   \* producer calls made so far
    lastOp,                   \* the latest producer call and how it ended
    callNow,                  \* time.time() of the latest call that returned
    pushed,                   \* bytes handed to metric_subject.on_next, per channel
    nAdvances,                \* clock advances made so far
    lastStepTime,             \* time.time() of the latest step() that returned
    watching_layers,          \* keys of JobDebuggerController.watching_layers
    lastWatch,                \* the latest debugger call naming each layer
    snapshots,                \* events emitted on JobDebuggerController.snapshot
    self_execution,           \* deepkit.utils.in_self_execution()
    registrations,            \* client.register_controller calls, in order
    nConnects,                \* events seen on client.connected
    hw_alive,                 \* the interval(1) of on_hardware_metrics still runs
    hwTicks,                  \* ticks of that interval so far
    inflight                  \* a log_subject.on_next call between its two steps

vars == <<now, shutting_down, defined_metrics, last_iteration_time,
          last_batch_time, job_iteration, job_iterations,
          seconds_per_iteration, seconds_per_iterations, metric_buf,
          speed_buf, log_buf, stopped, completions, sent, patched,
          closeCalls, sentAtClose, shutdownCalls, nCalls, lastOp, callNow,
          pushed, nAdvances, lastStepTime, watching_layers, lastWatch,
          snapshots, self_execution, registrations, nConnects, hw_alive,
          hwTicks, inflight>>

ctxVars == <<shutting_down, defined_metrics>>
progressVars == <<last_iteration_time, last_batch_time, job_iteration,
                  job_iterations, seconds_per_iteration,
                  seconds_per_iterations>>
rxVars == <<metric_buf, speed_buf, log_buf, stopped, completions>>
clientVars == <<sent, patched, closeCalls, sentAtClose>>
controllerVars == <<watching_layers, lastWatch, snapshots, self_execution,
                    registrations, nConnects>>
hardwareVars == <<hw_alive, hwTicks>>
jobVars == <<now, ctxVars, progressVars, rxVars, clientVars, shutdownCalls,
             callNow, pushed, nAdvances, lastStepTime>>

----------------------------------------------------------------------------
(* Bounds of the model *)

MaxCalls == 3
MaxAdvances == 2
MaxMetricCalls == 3
MaxDispatchCalls == 3
MaxSeconds == 1
MaxShutdownCalls == 2
MaxStatsAdvances == 1
MaxSnapshots == 1
MaxConnects == 3
MaxHardwareTicks == 3
MaxTimerCalls == 2
MaxPushes == 3
StartTime == 1

(* Program constants *)

WindowSeconds == 20
WindowCount == 30

None == 0 - 1

Names == {"x", "y"}
Layers == {"conv1", "conv2", "fc", "out"}

----------------------------------------------------------------------------
(* Arithmetic on floats, kept exact *)

Abs(n) == IF n < 0 THEN 0 - n ELSE n

RECURSIVE GCD(_, _)
GCD(a, b) == IF b = 0 THEN a ELSE GCD(b, a % b)

Rat(n, d) ==
    LET g == GCD(Abs(n), Abs(d))
        s == IF d < 0 THEN 0 - 1 ELSE 1
    IN  [num |-> s * (n \div g), den |-> s * (d \div g)]

RatTimes(r, k) == Rat(r.num * k, r.den)

Truthy(v) == v # None /\ v # 0

RatTruthy(r) == r.num # 0

RECURSIVE SumDiffs(_)
SumDiffs(s) == IF s = <<>> THEN 0 ELSE Head(s).diff + SumDiffs(Tail(s))

----------------------------------------------------------------------------
(* The rolling window of iteration() and step() *)

RECURSIVE SelectSeqOf(_, _)
SelectSeqOf(s, t) ==
    IF s = <<>> THEN <<>>
    ELSE IF t - Head(s).when < WindowSeconds
         THEN <<Head(s)>> \o SelectSeqOf(Tail(s), t)
         ELSE SelectSeqOf(Tail(s), t)

LastN(s, n) == IF Len(s) <= n THEN s ELSE SubSeq(s, Len(s) - n + 1, Len(s))

PruneKeepAll(s, t) == SelectSeqOf(s, t)

Prune(s, t) == LastN(SelectSeqOf(s, t), WindowCount)

Mean(s) == Rat(SumDiffs(s), Len(s))

----------------------------------------------------------------------------
(* struct.pack: little-endian fields.  A double is IEEE 754 binary64 of a   *)
(* non-negative rational p/q, rounded to nearest, ties to even.             *)

RECURSIVE Pow2(_)
Pow2(n) == IF n = 0 THEN 1 ELSE 2 * Pow2(n - 1)

RECURSIVE ExpUp(_, _, _)
ExpUp(p, q, e) == IF q * Pow2(e + 1) <= p THEN ExpUp(p, q, e + 1) ELSE e

RECURSIVE ExpDown(_, _, _)
ExpDown(p, q, k) == IF p * Pow2(k) >= q THEN k ELSE ExpDown(p, q, k + 1)

RECURSIVE FracBits(_, _, _)
FracBits(r, d, k) ==
    IF k = 0 \/ r = 0 THEN [i \in 1..k |-> 0]
    ELSE LET b == IF 2 * r >= d THEN 1 ELSE 0
         IN  <<b>> \o FracBits(2 * r - b * d, d, k - 1)

RECURSIVE FracRem(_, _, _)
FracRem(r, d, k) ==
    IF k = 0 \/ r = 0 THEN r
    ELSE LET b == IF 2 * r >= d THEN 1 ELSE 0
         IN  FracRem(2 * r - b * d, d, k - 1)

RECURSIVE Incr(_)
Incr(bits) ==
    IF bits = <<>> THEN <<>>
    ELSE IF bits[Len(bits)] = 0
         THEN SubSeq(bits, 1, Len(bits) - 1) \o <<1>>
         ELSE Incr(SubSeq(bits, 1, Len(bits) - 1)) \o <<0>>

RECURSIVE NatBits(_, _)
NatBits(n, width) ==
    IF width = 0 THEN <<>> ELSE NatBits(n \div 2, width - 1) \o <<n % 2>>

RECURSIVE BitsNat(_)
BitsNat(bits) ==
    IF bits = <<>> THEN 0
    ELSE 2 * BitsNat(SubSeq(bits, 1, Len(bits) - 1)) + bits[Len(bits)]

Double(p, q) ==
    IF p = 0 THEN [i \in 1..8 |-> 0]
    ELSE LET e == IF p >= q THEN ExpUp(p, q, 0) ELSE 0 - ExpDown(p, q, 1)
             n == IF e >= 0 THEN p ELSE p * Pow2(0 - e)
             d == IF e >= 0 THEN q * Pow2(e) ELSE q
             frac == FracBits(n - d, d, 52)
             rem == FracRem(n - d, d, 52)
             up == 2 * rem > d \/ (2 * rem = d /\ frac[52] = 1)
             carry == up /\ \A i \in 1..52 : frac[i] = 1
             mant == IF up THEN Incr(frac) ELSE frac
             bits == <<0>> \o NatBits(e + 1023 + (IF carry THEN 1 ELSE 0), 11)
                         \o mant
         IN  [i \in 1..8 |-> BitsNat(SubSeq(bits, 8 * (8 - i) + 1,
                                            8 * (8 - i) + 8))]

PackB(n) == <<n % 256>>

PackH(n) == <<n % 256, (n \div 256) % 256>>

PackD(r) == Double(r.num, r.den)

(* format 'f': IEEE 754 binary32 of a non-negative rational p/q in the      *)
(* normal range, rounded to nearest, ties to even                           *)
Float(p, q) ==
    IF p = 0 THEN [i \in 1..4 |-> 0]
    ELSE LET e == IF p >= q THEN ExpUp(p, q, 0) ELSE 0 - ExpDown(p, q, 1)
             n == IF e >= 0 THEN p ELSE p * Pow2(0 - e)
             d == IF e >= 0 THEN q * Pow2(e) ELSE q
             frac == FracBits(n - d, d, 23)
             rem == FracRem(n - d, d, 23)
             up == 2 * rem > d \/ (2 * rem = d /\ frac[23] = 1)
             carry == up /\ \A i \in 1..23 : frac[i] = 1
             mant == IF up THEN Incr(frac) ELSE frac
             bits == <<0>> \o NatBits(e + 127 + (IF carry THEN 1 ELSE 0), 8)
                         \o mant
         IN  [i \in 1..4 |-> BitsNat(SubSeq(bits, 8 * (4 - i) + 1,
                                            8 * (4 - i) + 8))]

PackF(r) == Float(r.num, r.den)

(* base64.b64encode(v).decode('utf8') *)

B64Alphabet ==
    <<"A", "B", "C", "D", "E", "F", "G", "H", "I", "J", "K", "L", "M",
      "N", "O", "P", "Q", "R", "S", "T", "U", "V", "W", "X", "Y", "Z",
      "a", "b", "c", "d", "e", "f", "g", "h", "i", "j", "k", "l", "m",
      "n", "o", "p", "q", "r", "s", "t", "u", "v", "w", "x", "y", "z",
      "0", "1", "2", "3", "4", "5", "6", "7", "8", "9", "+", "/">>

B64Char(n) == B64Alphabet[n + 1]

RECURSIVE b64encode(_)
b64encode(v) ==
    IF Len(v) = 0 THEN <<>>
    ELSE IF Len(v) = 1
    THEN <<B64Char(v[1] \div 4), B64Char((v[1] % 4) * 16), "=", "=">>
    ELSE IF Len(v) = 2
    THEN <<B64Char(v[1] \div 4),
           B64Char((v[1] % 4) * 16 + v[2] \div 16),
           B64Char((v[2] % 16) * 4), "=">>
    ELSE <<B64Char(v[1] \div 4),
           B64Char((v[1] % 4) * 16 + v[2] \div 16),
           B64Char((v[2] % 16) * 4 + v[3] \div 64),
           B64Char(v[3] % 64)>> \o b64encode(SubSeq(v, 4, Len(v)))

----------------------------------------------------------------------------
(* deepkit.client.Client, as far as Context uses it *)

Call(name, args) == [name |-> name, args |-> args]

job_action(log, name, args) == Append(log, Call(name, args))

patch(state, key, value) ==
    [k \in DOMAIN state \cup {key} |-> IF k = key THEN value ELSE state[k]]

----------------------------------------------------------------------------
(* The subscribers of the three buffered subjects: each maps one emitted    *)
(* buffer to the job_action calls it makes, in order.                       *)

RECURSIVE PackRowsNewestFirst(_, _)
PackRowsNewestFirst(data, packed) ==
    IF data = <<>> THEN packed
    ELSE LET d == Head(data)
             known == \E i \in 1..Len(packed) : packed[i].id = d.id
             opened == IF known THEN packed
                       ELSE <<[id |-> d.id, v |-> <<>>]>> \o packed
             added == [i \in 1..Len(opened) |->
                          IF opened[i].id = d.id
                          THEN [id |-> d.id, v |-> d.row \o opened[i].v]
                          ELSE opened[i]]
         IN  PackRowsNewestFirst(Tail(data), added)

RECURSIVE PackRows(_, _)
PackRows(data, packed) ==
    IF data = <<>> THEN packed
    ELSE LET d == Head(data)
             known == \E i \in 1..Len(packed) : packed[i].id = d.id
             opened == IF known THEN packed
                       ELSE Append(packed, [id |-> d.id, v |-> <<>>])
             added == [i \in 1..Len(opened) |->
                          IF opened[i].id = d.id
                          THEN [id |-> d.id, v |-> opened[i].v \o d.row]
                          ELSE opened[i]]
         IN  PackRows(Tail(data), added)

on_metric(data) ==
    IF Len(data) = 0 THEN <<>>
    ELSE LET packed == PackRows(data, <<>>)
         IN  [i \in 1..Len(packed) |->
                 Call("channelData",
                      <<packed[i].id, b64encode(packed[i].v)>>)]

on_speed_report_first(rows) ==
    IF Len(rows) = 0 THEN <<>>
    ELSE <<Call("streamFile",
                <<".deepkit/speed.metric", b64encode(rows[1])>>)>>

on_speed_report(rows) ==
    IF Len(rows) = 0 THEN <<>>
    ELSE <<Call("streamFile",
                <<".deepkit/speed.metric", b64encode(rows[Len(rows)])>>)>>

RECURSIVE JoinText(_)
JoinText(data) ==
    IF data = <<>> THEN <<>> ELSE Head(data) \o JoinText(Tail(data))

on_log_unguarded(data) == <<Call("log", <<"main_0", JoinText(data)>>)>>

on_log(data) ==
    IF Len(data) = 0 THEN <<>>
    ELSE <<Call("log", <<"main_0", JoinText(data)>>)>>

(* Subject.on_next: a stopped subject ignores the value *)
on_next(buf, isStopped, item) == IF isStopped THEN buf ELSE Append(buf, item)

(* the window an unfinished Subject.on_next call is delivering into has     *)
(* been closed by the timer or by on_completed                              *)
CloseWindow(calls) == [i \in DOMAIN calls |-> [calls[i] EXCEPT !.open = FALSE]]

----------------------------------------------------------------------------
(* Inputs of the producer calls *)

Scalar(v) == [isList |-> FALSE, val |-> v]
List(v) == [isList |-> TRUE, val |-> v]

XValues == {3}
YValues == {Scalar(2), List(<<1, None>>)}
Texts == {<<"a">>, <<"b", "c">>}
LastLogs == <<"o", "l", "d">>
EmptyOptions == <<>>
Currents == {1, 2}
Totals == {None, 0, 2}
Sizes == {4}
Jumps == {1, WindowSeconds}

ChannelKey(name) == "channels." \o name \o ".lastValue"

Op(op, name, raised) == [op |-> op, name |-> name, raised |-> raised]

----------------------------------------------------------------------------
(* Context.__init__; a run is inside or outside self-execution for good *)
Construct(in_self_execution) ==
    /\ now = StartTime
    /\ shutting_down = FALSE
    /\ defined_metrics = {}
    /\ last_iteration_time = 0
    /\ last_batch_time = 0
    /\ job_iteration = 0
    /\ job_iterations = 0
    /\ seconds_per_iteration = Rat(0, 1)
    /\ seconds_per_iterations = <<>>
    /\ metric_buf = <<>>
    /\ speed_buf = <<>>
    /\ log_buf \in {<<>>, <<LastLogs>>}
    /\ stopped = [metric |-> FALSE, speed |-> FALSE, log |-> FALSE]
    /\ completions = [metric |-> 0, speed |-> 0, log |-> 0]
    /\ sent = <<>>
    /\ patched = [k \in {} |-> 0]
    /\ closeCalls = 0
    /\ sentAtClose = 0
    /\ shutdownCalls = 0
    /\ nCalls = 0
    /\ lastOp = Op("init", "", FALSE)
    /\ callNow = 0
    /\ pushed = [n \in Names |-> <<>>]
    /\ nAdvances = 0
    /\ lastStepTime = 0
    /\ watching_layers = {}
    /\ lastWatch = [id \in Layers |-> "none"]
    /\ snapshots = 0
    /\ self_execution = in_self_execution
    /\ registrations = <<>>
    /\ nConnects = 0
    /\ hw_alive = TRUE
    /\ hwTicks = 0
    /\ inflight = <<>>

Init == Construct(FALSE)

(* time.time() moves on between two calls *)
AdvanceTime(d) ==
    /\ now' = now + d
    /\ nAdvances' = nAdvances + 1
    /\ lastOp' = Op("advance", "", FALSE)
    /\ UNCHANGED <<ctxVars, progressVars, rxVars, clientVars, shutdownCalls,
                   callNow, pushed,
                   lastStepTime, controllerVars, hardwareVars, inflight>>

----------------------------------------------------------------------------
(* Context.iteration and Context.step *)

Record(window, last, diff, t) ==
    IF last # 0 THEN Append(window, [diff |-> diff, when |-> t]) ELSE window

NewRate(window, old) == IF Len(window) > 0 THEN Mean(window) ELSE old

Iteration(current, total) ==
    LET iterations == IF Truthy(total) THEN total ELSE job_iterations
        window == Prune(Record(seconds_per_iterations, last_iteration_time,
                               now - last_iteration_time, now), now)
        rate == NewRate(window, seconds_per_iteration)
        p1 == IF RatTruthy(rate)
              THEN patch(patched, "secondsPerIteration", rate) ELSE patched
        p2 == patch(p1, "iteration", current)
        p3 == IF Truthy(total) THEN patch(p2, "iterations", iterations)
              ELSE p2
        iterations_left == iterations - current
    IN  /\ job_iteration' = current
        /\ job_iterations' = iterations
        /\ last_iteration_time' = now
        /\ last_batch_time' = now
        /\ seconds_per_iterations' = window
        /\ seconds_per_iteration' = rate
        /\ patched' = patch(p3, "eta",
                            IF iterations_left > 0
                            THEN RatTimes(rate, iterations_left)
                            ELSE Rat(0, 1))
        /\ lastOp' = Op("iteration", "", FALSE)
        /\ callNow' = now
        /\ UNCHANGED <<now, ctxVars, rxVars, sent, closeCalls, sentAtClose,
                       shutdownCalls, pushed, nAdvances,
                       lastStepTime, controllerVars, hardwareVars, inflight>>

(* current / total raises on total None or 0; size / (now - last_batch_time) *)
(* raises when the clock has not moved since the last batch                  *)
StepRaises(total) ==
    \/ total = None
    \/ total = 0
    \/ last_batch_time # 0 /\ now = last_batch_time

(* the mutant never divides the size by the elapsed time *)
SpeedPerSecondUndivided(size, last, t) == Rat(size, 1)

(* size / (now - self.last_batch_time) if self.last_batch_time else size *)
SpeedPerSecond(size, last, t) ==
    IF last # 0 THEN Rat(size, t - last) ELSE Rat(size, 1)

SpeedRow(x, t, speed) ==
    PackB(1) \o PackD(x) \o PackD(Rat(t, 1)) \o PackD(speed)

Step(current, total, size) ==
    LET p0 == patch(patched, "step", current)
    IN  IF StepRaises(total)
        THEN /\ patched' = p0
             /\ lastOp' = Op("step", "", TRUE)
             /\ UNCHANGED <<now, ctxVars, progressVars, rxVars, sent,
                            closeCalls, sentAtClose, shutdownCalls, callNow,
                            pushed, nAdvances,
                            lastStepTime, controllerVars, hardwareVars, inflight>>
        ELSE
        LET x == Rat(job_iteration * total + current, total)
            speed_per_second == SpeedPerSecond(size, last_batch_time, now)
            window == Prune(Record(seconds_per_iterations, last_batch_time,
                                   (now - last_batch_time) * total, now), now)
            rate == NewRate(window, seconds_per_iteration)
            iterations_left == job_iterations - job_iteration
            p1 == IF Len(window) > 0
                  THEN patch(p0, "eta", RatTimes(rate, iterations_left))
                  ELSE p0
            p2 == IF RatTruthy(rate)
                  THEN patch(p1, "secondsPerIteration", rate) ELSE p1
            p3 == patch(p2, "speed", speed_per_second)
        IN  /\ seconds_per_iterations' = window
            /\ seconds_per_iteration' = rate
            /\ last_batch_time' = now
            /\ speed_buf' = on_next(speed_buf, stopped.speed,
                                    SpeedRow(x, now, speed_per_second))
            /\ patched' = IF Truthy(total) THEN patch(p3, "steps", total)
                          ELSE p3
            /\ lastOp' = Op("step", "", FALSE)
            /\ callNow' = now
            /\ lastStepTime' = now
            /\ UNCHANGED <<now, ctxVars, last_iteration_time, job_iteration,
                           job_iterations, metric_buf, log_buf, stopped,
                           completions, sent, closeCalls, sentAtClose,
                           shutdownCalls, pushed, nAdvances,
                           controllerVars, hardwareVars, inflight>>

----------------------------------------------------------------------------
(* Context.define_metric, Context.metric and Context.log *)

DefineMetric(name, options) ==
    /\ defined_metrics' = defined_metrics \cup {name}
    /\ sent' = job_action(sent, "defineMetric", <<name, options>>)
    /\ lastOp' = Op("define_metric", name, FALSE)
    /\ UNCHANGED <<now, shutting_down, progressVars, rxVars, patched,
                   closeCalls, sentAtClose, shutdownCalls, callNow, pushed,
                   nAdvances,
                   lastStepTime, controllerVars, hardwareVars, inflight>>

UndefinedAlways(name, defined) == TRUE

Undefined(name, defined) == name \notin defined

AsList(y) == IF y.isList THEN y.val ELSE <<y.val>>

RECURSIVE PackValues(_)
PackValues(y) ==
    IF y = <<>> THEN <<>>
    ELSE PackD(Rat(IF Head(y) # None THEN Head(y) ELSE 0, 1))
             \o PackValues(Tail(y))

MetricRow(x, t, y) ==
    PackB(1) \o PackH(Len(y)) \o PackD(Rat(x, 1)) \o PackD(Rat(t, 1))
        \o PackValues(y)

Metric(name, x, y) ==
    LET define == Undefined(name, defined_metrics)
        row_binary == MetricRow(x, now, AsList(y))
    IN  /\ defined_metrics' = IF define THEN defined_metrics \cup {name}
                              ELSE defined_metrics
        /\ sent' = IF define
                   THEN job_action(sent, "defineMetric",
                                   <<name, EmptyOptions>>)
                   ELSE sent
        /\ metric_buf' = on_next(metric_buf, stopped.metric,
                                 [id |-> name, row |-> row_binary])
        /\ patched' = patch(patched, ChannelKey(name), AsList(y))
        /\ pushed' = [pushed EXCEPT ![name] = @ \o row_binary]
        /\ lastOp' = Op("metric", name, FALSE)
        /\ UNCHANGED <<now, shutting_down, progressVars, speed_buf, log_buf,
                       stopped, completions, closeCalls, sentAtClose,
                       shutdownCalls, callNow, nAdvances,
                       lastStepTime, controllerVars, hardwareVars, inflight>>

Log(s) ==
    /\ log_buf' = on_next(log_buf, stopped.log, s)
    /\ lastOp' = Op("log", "", FALSE)
    /\ UNCHANGED <<now, ctxVars, progressVars, metric_buf, speed_buf,
                   stopped, completions, clientVars, shutdownCalls, callNow,
                   pushed, nAdvances,
                   lastStepTime, controllerVars, hardwareVars, inflight>>

(* Context.log called on the job's thread while the timer thread runs: the  *)
(* call is Subject.on_next, which no lock of Context covers (log_lock is    *)
(* never acquired).  It first picks the window that is open, LogEnter, and  *)
(* then hands the item to that window, LogDeliver; a window closed in       *)
(* between ignores the item.                                                *)

LogEnter(s) ==
    /\ inflight = <<>>
    /\ inflight' = <<[item |-> s, open |-> ~stopped.log]>>
    /\ lastOp' = Op("log_enter", "", FALSE)
    /\ UNCHANGED <<jobVars, controllerVars, hardwareVars>>

LogDeliver ==
    /\ inflight # <<>>
    /\ log_buf' = on_next(log_buf, ~inflight[1].open, inflight[1].item)
    /\ inflight' = <<>>
    /\ lastOp' = Op("log", "", FALSE)
    /\ UNCHANGED <<now, ctxVars, progressVars, metric_buf, speed_buf,
                   stopped, completions, clientVars, shutdownCalls, callNow,
                   pushed, nAdvances, lastStepTime, controllerVars,
                   hardwareVars>>

----------------------------------------------------------------------------
(* buffer(interval(1)): each timer tick closes the open window and emits    *)
(* it to the subscriber; the timer is disposed when the subject completes.  *)

MetricTickKeepsWindow ==
    /\ ~stopped.metric
    /\ sent' = sent \o on_metric(metric_buf)
    /\ metric_buf' = metric_buf
    /\ lastOp' = Op("metric_tick", "", FALSE)
    /\ UNCHANGED <<now, ctxVars, progressVars, speed_buf, log_buf, stopped,
                   completions, patched, closeCalls, sentAtClose,
                   shutdownCalls, callNow, pushed, nAdvances,
                   lastStepTime, controllerVars, hardwareVars, inflight>>

MetricTick ==
    /\ ~stopped.metric
    /\ sent' = sent \o on_metric(metric_buf)
    /\ metric_buf' = <<>>
    /\ lastOp' = Op("metric_tick", "", FALSE)
    /\ UNCHANGED <<now, ctxVars, progressVars, speed_buf, log_buf, stopped,
                   completions, patched, closeCalls, sentAtClose,
                   shutdownCalls, callNow, pushed, nAdvances,
                   lastStepTime, controllerVars, hardwareVars, inflight>>

SpeedTick ==
    /\ ~stopped.speed
    /\ sent' = sent \o on_speed_report(speed_buf)
    /\ speed_buf' = <<>>
    /\ lastOp' = Op("speed_tick", "", FALSE)
    /\ UNCHANGED <<now, ctxVars, progressVars, metric_buf, log_buf, stopped,
                   completions, patched, closeCalls, sentAtClose,
                   shutdownCalls, callNow, pushed, nAdvances,
                   lastStepTime, controllerVars, hardwareVars, inflight>>

LogTick ==
    /\ ~stopped.log
    /\ sent' = sent \o on_log(log_buf)
    /\ log_buf' = <<>>
    /\ inflight' = CloseWindow(inflight)
    /\ lastOp' = Op("log_tick", "", FALSE)
    /\ UNCHANGED <<now, ctxVars, progressVars, metric_buf, speed_buf,
                   stopped, completions, patched, closeCalls, sentAtClose,
                   shutdownCalls, callNow, pushed, nAdvances,
                   lastStepTime, controllerVars, hardwareVars>>

----------------------------------------------------------------------------
(* Context.shutdown: on_completed emits the open window of a subject that   *)
(* has not stopped, then stops it.                                          *)

Completed == {"metric", "log"}

Shutdown ==
    /\ shutdownCalls' = shutdownCalls + 1
    /\ lastOp' = Op("shutdown", "", FALSE)
    /\ IF shutting_down
       THEN UNCHANGED <<shutting_down, rxVars, clientVars, inflight>>
       ELSE LET flushed ==
                    sent
                    \o (IF "metric" \in Completed /\ ~stopped.metric
                        THEN on_metric(metric_buf) ELSE <<>>)
                    \o (IF "log" \in Completed /\ ~stopped.log
                        THEN on_log(log_buf) ELSE <<>>)
                    \o (IF "speed" \in Completed /\ ~stopped.speed
                        THEN on_speed_report(speed_buf) ELSE <<>>)
            IN  /\ shutting_down' = TRUE
                /\ metric_buf' = IF "metric" \in Completed THEN <<>>
                                 ELSE metric_buf
                /\ log_buf' = IF "log" \in Completed THEN <<>> ELSE log_buf
                /\ speed_buf' = IF "speed" \in Completed THEN <<>>
                                ELSE speed_buf
                /\ stopped' = [d \in DOMAIN stopped |->
                                  stopped[d] \/ d \in Completed]
                /\ completions' = [d \in DOMAIN completions |->
                                      IF d \in Completed
                                      THEN completions[d] + 1
                                      ELSE completions[d]]
                /\ sent' = flushed
                /\ closeCalls' = closeCalls + 1
                /\ sentAtClose' = Len(flushed)
                /\ inflight' = IF "log" \in Completed
                               THEN CloseWindow(inflight) ELSE inflight
                /\ UNCHANGED patched
    /\ UNCHANGED <<now, defined_metrics, progressVars, callNow,
                   pushed, nAdvances,
                   lastStepTime, controllerVars, hardwareVars>>

----------------------------------------------------------------------------
(* on_hardware_metrics, subscribed to its own interval(1).  A sample is     *)
(* what psutil returns on one tick; disk_io_counters() returns None on a    *)
(* host without disks and disk.write_bytes then raises.  The subscriber     *)
(* catches nothing: an exception leaves it through the timer's action, the  *)
(* timer is not rescheduled and the later periods sample nothing.           *)

NoDisk == [none |-> TRUE]
Disk(w, r) == [none |-> FALSE, write_bytes |-> w, read_bytes |-> r]

Sample(cpu, count, mem, recv, snt, disk) ==
    [cpu_percent |-> cpu, cpu_count |-> count, memory_percent |-> mem,
     bytes_recv |-> recv, bytes_sent |-> snt, disk |-> disk]

Samples == {Sample(50, 2, 25, 16777217, 3, Disk(5, 0)),
            Sample(50, 2, 25, 16777217, 3, NoDisk)}

SamplingRaises(sample) == sample.disk.none

Health(sample) == IF SamplingRaises(sample) THEN "fail" ELSE "ok"

(* int(x) of a non-negative x *)
Floor(r) == r.num \div r.den

HardwareRow(sample, t) ==
    PackB(1) \o PackH(0) \o PackD(Rat(t, 1))
        \o PackH(Floor(Rat(sample.cpu_percent * 65535,
                         100 * sample.cpu_count)))
        \o PackH(Floor(Rat(sample.memory_percent * 65535, 100)))
        \o PackF(Rat(sample.bytes_recv, 1))
        \o PackF(Rat(sample.bytes_sent, 1))
        \o PackF(Rat(sample.disk.write_bytes, 1))
        \o PackF(Rat(sample.disk.read_bytes, 1))

(* one period of the interval elapses *)
HardwareTick(sample) ==
    /\ hwTicks' = hwTicks + 1
    /\ IF ~hw_alive
       THEN /\ lastOp' = Op("hardware_tick", Health(sample), FALSE)
            /\ UNCHANGED <<sent, hw_alive>>
       ELSE IF SamplingRaises(sample)
       THEN /\ lastOp' = Op("hardware_tick", Health(sample), TRUE)
            /\ hw_alive' = FALSE
            /\ UNCHANGED sent
       ELSE /\ lastOp' = Op("hardware_tick", Health(sample), FALSE)
            /\ sent' = job_action(sent, "streamFile",
                                  <<".deepkit/hardware/main_0.hardware",
                                    b64encode(HardwareRow(sample, now))>>)
            /\ UNCHANGED hw_alive
    /\ UNCHANGED <<now, ctxVars, progressVars, rxVars, patched, closeCalls,
                   sentAtClose, shutdownCalls, callNow, pushed, nAdvances,
                   lastStepTime, controllerVars, inflight>>

----------------------------------------------------------------------------
(* JobDebuggerController: watching_layers is a dict whose values are all    *)
(* True, so it is modelled by its set of keys.                              *)

debugSnapshot ==
    /\ snapshots' = snapshots + 1
    /\ lastOp' = Op("debugSnapshot", "", FALSE)
    /\ UNCHANGED <<jobVars, watching_layers, lastWatch, self_execution,
                   registrations, nConnects, hardwareVars, inflight>>

(* the mutant drops every watched layer, not only the one named *)
debugStopWatchLayerAll(id) ==
    /\ watching_layers' = IF id \in watching_layers THEN {}
                          ELSE watching_layers
    /\ lastWatch' = [lastWatch EXCEPT ![id] = "stop"]
    /\ lastOp' = Op("debugStopWatchLayer", id, FALSE)
    /\ UNCHANGED <<jobVars, snapshots, self_execution, registrations,
                   nConnects, hardwareVars, inflight>>

debugStopWatchLayer(id) ==
    /\ watching_layers' = IF id \in watching_layers
                          THEN watching_layers \ {id}
                          ELSE watching_layers
    /\ lastWatch' = [lastWatch EXCEPT ![id] = "stop"]
    /\ lastOp' = Op("debugStopWatchLayer", id, FALSE)
    /\ UNCHANGED <<jobVars, snapshots, self_execution, registrations,
                   nConnects, hardwareVars, inflight>>

debugStartWatchLayer(id) ==
    /\ watching_layers' = watching_layers \cup {id}
    /\ lastWatch' = [lastWatch EXCEPT ![id] = "start"]
    /\ lastOp' = Op("debugStartWatchLayer", id, FALSE)
    /\ UNCHANGED <<jobVars, snapshots, self_execution, registrations,
                   nConnects, hardwareVars, inflight>>

----------------------------------------------------------------------------
(* on_connect, subscribed to client.connected.  The two controllers are the *)
(* objects made once in Context.__init__.                                   *)

JobId == "7"
job_controller == "JobController#1"
debugger_controller == "JobDebuggerController#1"

register_controller(regs, name, controller) ==
    Append(regs, [name |-> name, controller |-> controller])

(* the mutant registers on every event, whatever it carries *)
on_connect_always(connected) ==
    LET r1 == IF self_execution
              THEN register_controller(registrations, "job/" \o JobId,
                                       job_controller)
              ELSE registrations
    IN  /\ registrations' =
               register_controller(r1, "job/" \o JobId \o "/debugger",
                                   debugger_controller)
        /\ nConnects' = nConnects + 1
        /\ lastOp' = Op("on_connect", IF connected THEN "true" ELSE "false",
                        FALSE)
        /\ UNCHANGED <<jobVars, watching_layers, lastWatch, snapshots,
                       self_execution, hardwareVars, inflight>>

on_connect(connected) ==
    LET r1 == IF self_execution
              THEN register_controller(registrations, "job/" \o JobId,
                                       job_controller)
              ELSE registrations
    IN  /\ registrations' =
               IF connected
               THEN register_controller(r1, "job/" \o JobId \o "/debugger",
                                        debugger_controller)
               ELSE registrations
        /\ nConnects' = nConnects + 1
        /\ lastOp' = Op("on_connect", IF connected THEN "true" ELSE "false",
                        FALSE)
        /\ UNCHANGED <<jobVars, watching_layers, lastWatch, snapshots,
                       self_execution, hardwareVars, inflight>>

----------------------------------------------------------------------------
(* A producer call, counted against the bound of the specification *)
Counted(max) == nCalls < max /\ nCalls' = nCalls + 1

Next ==
    \/ \E d \in Jumps :
           nAdvances < MaxAdvances /\ AdvanceTime(d) /\ UNCHANGED nCalls
    \/ \E c \in Currents, t \in Totals : Counted(MaxCalls) /\ Iteration(c, t)
    \/ \E c \in Currents, t \in Totals, z \in Sizes :
           Counted(MaxCalls) /\ Step(c, t, z)
    \/ \E n \in Names : Counted(MaxCalls) /\ DefineMetric(n, EmptyOptions)
    \/ \E n \in Names, x \in XValues, y \in YValues :
           Counted(MaxCalls) /\ Metric(n, x, y)
    \/ \E s \in Texts : Counted(MaxCalls) /\ Log(s)
    \/ MetricTick /\ UNCHANGED nCalls
    \/ SpeedTick /\ UNCHANGED nCalls
    \/ LogTick /\ UNCHANGED nCalls
    \/ shutdownCalls < MaxShutdownCalls /\ Shutdown /\ UNCHANGED nCalls

Spec == Init /\ [][Next]_vars

(* iteration() and step() alone, called until the window is full *)
NextStats ==
    \/ \E d \in Jumps :
           nAdvances < MaxStatsAdvances /\ AdvanceTime(d) /\ UNCHANGED nCalls
    \/ Iteration(1, 2) /\ UNCHANGED nCalls
    \/ \E t \in {0, 2} : Step(1, t, 4) /\ UNCHANGED nCalls

SpecStats == Init /\ [][NextStats]_vars

(* iteration() and step() with every input, a few calls *)
NextProgress ==
    \/ \E d \in Jumps :
           nAdvances < MaxAdvances /\ AdvanceTime(d) /\ UNCHANGED nCalls
    \/ \E c \in Currents, t \in Totals :
           Counted(MaxCalls) /\ Iteration(c, t)
    \/ \E c \in Currents, t \in Totals, z \in Sizes :
           Counted(MaxCalls) /\ Step(c, t, z)

SpecProgress == Init /\ [][NextProgress]_vars

(* metric() and define_metric() against the metrics buffer and shutdown *)
NextMetrics ==
    \/ \E n \in Names : Counted(MaxMetricCalls) /\ DefineMetric(n, EmptyOptions)
    \/ \E n \in Names, x \in XValues, y \in YValues :
           Counted(MaxMetricCalls) /\ Metric(n, x, y)
    \/ MetricTick /\ UNCHANGED nCalls
    \/ shutdownCalls < MaxShutdownCalls /\ Shutdown /\ UNCHANGED nCalls

SpecMetrics == Init /\ [][NextMetrics]_vars

(* the three producers against their buffers, the timers and shutdown *)
NextDispatch ==
    \/ nAdvances < MaxSeconds /\ AdvanceTime(1) /\ UNCHANGED nCalls
    \/ Counted(MaxDispatchCalls) /\ Metric("x", 3, Scalar(2))
    \/ \E s \in Texts : Counted(MaxDispatchCalls) /\ Log(s)
    \/ Counted(MaxDispatchCalls) /\ Step(1, 2, 4)
    \/ MetricTick /\ UNCHANGED nCalls
    \/ SpeedTick /\ UNCHANGED nCalls
    \/ LogTick /\ UNCHANGED nCalls
    \/ shutdownCalls < MaxShutdownCalls /\ Shutdown /\ UNCHANGED nCalls

(* the two controllers: remote debugger calls and connection events *)
InitControllers == \E e \in BOOLEAN : Construct(e)

NextControllers ==
    \/ snapshots < MaxSnapshots /\ debugSnapshot /\ UNCHANGED nCalls
    \/ \E id \in Layers : debugStartWatchLayer(id) /\ UNCHANGED nCalls
    \/ \E id \in Layers : debugStopWatchLayer(id) /\ UNCHANGED nCalls
    \/ \E c \in BOOLEAN :
           nConnects < MaxConnects /\ on_connect(c) /\ UNCHANGED nCalls

SpecControllers == InitControllers /\ [][NextControllers]_vars

(* the timers of a context: the hardware sampler and the three buffers *)
NextTimers ==
    \/ nAdvances < MaxSeconds /\ AdvanceTime(1) /\ UNCHANGED nCalls
    \/ Counted(MaxTimerCalls) /\ Step(1, 2, 4)
    \/ \E sample \in Samples :
           hwTicks < MaxHardwareTicks /\ HardwareTick(sample)
               /\ UNCHANGED nCalls
    \/ MetricTick /\ UNCHANGED nCalls
    \/ SpeedTick /\ UNCHANGED nCalls
    \/ LogTick /\ UNCHANGED nCalls
    \/ shutdownCalls < MaxShutdownCalls /\ Shutdown /\ UNCHANGED nCalls

SpecTimers == Init /\ [][NextTimers]_vars

(* the job's thread logging while the log timer and shutdown run *)
NextInterleaving ==
    \/ \E s \in Texts : Counted(MaxPushes) /\ LogEnter(s)
    \/ LogDeliver /\ UNCHANGED nCalls
    \/ LogTick /\ UNCHANGED nCalls
    \/ shutdownCalls < MaxShutdownCalls /\ Shutdown /\ UNCHANGED nCalls

SpecInterleaving == Init /\ [][NextInterleaving]_vars

SpecDispatch == Init /\ [][NextDispatch]_vars

----------------------------------------------------------------------------
(* Reading the remote calls back *)

B64Index(c) == CHOOSE n \in 0..63 : B64Alphabet[n + 1] = c

RECURSIVE B64Decode(_)
B64Decode(text) ==
    IF Len(text) = 0 THEN <<>>
    ELSE LET a == B64Index(text[1])
             b == B64Index(text[2])
             rest == B64Decode(SubSeq(text, 5, Len(text)))
         IN  IF text[3] = "=" THEN <<a * 4 + b \div 16>> \o rest
             ELSE LET c == B64Index(text[3])
                  IN  IF text[4] = "="
                      THEN <<a * 4 + b \div 16, (b % 16) * 16 + c \div 4>>
                               \o rest
                      ELSE <<a * 4 + b \div 16, (b % 16) * 16 + c \div 4,
                             (c % 4) * 64 + B64Index(text[4])>> \o rest

Flushed == SubSeq(sent', Len(sent) + 1, Len(sent'))

Contains(calls, part) ==
    \A i \in 1..Len(part) : \E j \in 1..Len(calls) : calls[j] = part[i]

ProducerCall == nCalls' = nCalls + 1

----------------------------------------------------------------------------
(* C1: calling shutdown() twice, or any number of times, completes each of  *)
(* the metrics, speed and log dispatchers exactly once and closes the       *)
(* client connection exactly once.                                          *)
C1_ShutdownOnce ==
    shutdownCalls >= 2 =>
        /\ completions.metric = 1
        /\ completions.speed = 1
        /\ completions.log = 1
        /\ closeCalls = 1

(* C2: on shutdown() every item pushed to a dispatcher and not yet flushed  *)
(* is forwarded in a final flush, and the flush comes before the client     *)
(* connection is closed.                                                    *)
C2_FinalFlush ==
    [][closeCalls' = closeCalls + 1 =>
          /\ Contains(Flushed, on_metric(metric_buf))
          /\ Contains(Flushed, on_log(log_buf))
          /\ Contains(Flushed, on_speed_report(speed_buf))
          /\ metric_buf' = <<>> /\ log_buf' = <<>> /\ speed_buf' = <<>>
          /\ sentAtClose' = Len(sent')]_vars

(* C3: after any sequence of iteration() and step() calls the window holds  *)
(* at most 30 samples, each younger than 20 seconds at the latest call, in  *)
(* chronological order, and the rate is the mean of the retained diffs      *)
(* whenever the window is not empty.                                        *)
RECURSIVE DiffTotal(_, _)
DiffTotal(w, n) == IF n = 0 THEN 0 ELSE w[n].diff + DiffTotal(w, n - 1)

C3_WindowInvariant ==
    LET w == seconds_per_iterations
    IN  /\ Len(w) <= 30
        /\ \A i \in 1..Len(w) : callNow - w[i].when < 20
        /\ \A i \in 1..Len(w) : \A j \in i..Len(w) : w[i].when <= w[j].when
        /\ Len(w) > 0 =>
               seconds_per_iteration.num * Len(w)
                   = DiffTotal(w, Len(w)) * seconds_per_iteration.den

C3_Witness ==
    /\ Len(seconds_per_iterations) = 30
    /\ seconds_per_iterations[1].when < seconds_per_iterations[30].when
    /\ seconds_per_iteration.num # 0
    /\ lastOp.op \in {"iteration", "step"}

(* C4: whenever the window is empty after pruning, the rate held by the     *)
(* context and used for the eta patch is 0.                                 *)
C4_EmptyWindowRateZero ==
    (callNow # 0 /\ seconds_per_iterations = <<>>) =>
        seconds_per_iteration.num = 0

(* C5: a dispatcher that received no push within a tick issues no remote   *)
(* call for that tick, and no channelData, streamFile or log call ever      *)
(* carries an empty batch.                                                  *)
C5_NoEmptyFlush ==
    /\ [][(\/ lastOp'.op = "metric_tick" /\ metric_buf = <<>>
           \/ lastOp'.op = "speed_tick" /\ speed_buf = <<>>
           \/ lastOp'.op = "log_tick" /\ log_buf = <<>>
           \/ lastOp'.op = "shutdown" /\ metric_buf = <<>> /\ log_buf = <<>>)
              => sent' = sent]_vars
    /\ [](\A i \in 1..Len(sent) :
              sent[i].name \in {"channelData", "streamFile", "log"}
                  => sent[i].args[2] # <<>>)

C5_Witness ==
    /\ lastOp.op = "log_tick"
    /\ log_buf = <<>>
    /\ sent = <<>>
    /\ nCalls > 0

(* C6: for every window of metric pushes the flush issues exactly one       *)
(* channelData call per distinct channel of the window, in order of first   *)
(* appearance, each carrying the channel's rows concatenated in arrival     *)
(* order.                                                                   *)
RECURSIVE FirstAppearance(_, _)
FirstAppearance(data, seen) ==
    IF data = <<>> THEN <<>>
    ELSE IF Head(data).id \in seen THEN FirstAppearance(Tail(data), seen)
         ELSE <<Head(data).id>>
                  \o FirstAppearance(Tail(data), seen \cup {Head(data).id})

RECURSIVE RowsOf(_, _)
RowsOf(data, id) ==
    IF data = <<>> THEN <<>>
    ELSE (IF Head(data).id = id THEN Head(data).row ELSE <<>>)
             \o RowsOf(Tail(data), id)

C6_GroupedByChannel ==
    [][lastOp'.op \in {"metric_tick", "shutdown"} /\ ~stopped.metric =>
          LET channels == FirstAppearance(metric_buf, {})
          IN  /\ Len(Flushed) >= Len(channels)
              /\ \A i \in 1..Len(channels) :
                     /\ Flushed[i].name = "channelData"
                     /\ Flushed[i].args[1] = channels[i]
                     /\ B64Decode(Flushed[i].args[2])
                            = RowsOf(metric_buf, channels[i])
              /\ \A i \in 1..Len(Flushed) :
                     Flushed[i].name = "channelData" => i <= Len(channels)]_vars

C6_Witness ==
    /\ lastOp.op = "metric_tick"
    /\ \E i \in 1..Len(sent) - 1 :
           /\ sent[i].name = "channelData" /\ sent[i].args[1] = "x"
           /\ sent[i + 1].name = "channelData" /\ sent[i + 1].args[1] = "y"
           /\ B64Decode(sent[i].args[2]) = pushed["x"]
           /\ B64Decode(sent[i + 1].args[2]) = pushed["y"]
           /\ pushed["y"] # <<>>
           /\ Len(pushed["x"]) >= 2 * Len(pushed["y"])

(* C7: the first metric(name, ...) call for a name not yet defined issues   *)
(* exactly one defineMetric call for it, before the row's channelData; no   *)
(* later metric() call for the name, and none for a name defined with       *)
(* define_metric(), issues another.                                         *)
RECURSIVE DefineCount(_, _)
DefineCount(calls, name) ==
    IF calls = <<>> THEN 0
    ELSE (IF Head(calls).name = "defineMetric" /\ Head(calls).args[1] = name
          THEN 1 ELSE 0) + DefineCount(Tail(calls), name)

C7_DefinedOnce ==
    /\ [][ProducerCall /\ lastOp'.op = "metric" =>
             /\ DefineCount(sent', lastOp'.name)
                    = IF DefineCount(sent, lastOp'.name) = 0 THEN 1
                      ELSE DefineCount(sent, lastOp'.name)
             /\ \A n \in Names \ {lastOp'.name} :
                    DefineCount(sent', n) = DefineCount(sent, n)]_vars
    /\ [](\A i \in 1..Len(sent) :
              sent[i].name = "channelData" =>
                  \E j \in 1..(i - 1) :
                      /\ sent[j].name = "defineMetric"
                      /\ sent[j].args[1] = sent[i].args[1])
    /\ [](\A i \in 1..Len(metric_buf) :
              DefineCount(sent, metric_buf[i].id) > 0)

C7_Witness ==
    /\ lastOp.op = "metric"
    /\ nCalls = 2
    /\ Len(metric_buf) = 2
    /\ metric_buf[1].id = metric_buf[2].id
    /\ DefineCount(sent, metric_buf[1].id) = 1

(* C8: within one channel, rows reach the backend in the order metric()     *)
(* pushed them, inside one window and across windows.                       *)
RECURSIVE Forwarded(_, _)
Forwarded(calls, id) ==
    IF calls = <<>> THEN <<>>
    ELSE (IF Head(calls).name = "channelData" /\ Head(calls).args[1] = id
          THEN B64Decode(Head(calls).args[2]) ELSE <<>>)
             \o Forwarded(Tail(calls), id)

IsPrefix(a, b) == Len(a) <= Len(b) /\ a = SubSeq(b, 1, Len(a))

C8_ChannelFifo ==
    \A n \in Names :
        LET out == Forwarded(sent, n) \o RowsOf(metric_buf, n)
        IN  IF stopped.metric THEN IsPrefix(out, pushed[n])
            ELSE out = pushed[n]

C8_Witness ==
    \E i, j \in 1..Len(sent) :
        /\ i < j
        /\ sent[i].name = "channelData" /\ sent[j].name = "channelData"
        /\ sent[i].args[1] = sent[j].args[1]
        /\ sent[i].args[2] # sent[j].args[2]
        /\ RowsOf(metric_buf, sent[i].args[1]) # <<>>

(* C9: for every window with at least one speed row the speed flush issues  *)
(* exactly one streamFile call, carrying the last row pushed in the window. *)
C9_LatestSpeedRow ==
    [][lastOp'.op = "speed_tick" /\ speed_buf # <<>> =>
          /\ Len(Flushed) = 1
          /\ Flushed[1].name = "streamFile"
          /\ Flushed[1].args[1] = ".deepkit/speed.metric"
          /\ B64Decode(Flushed[1].args[2]) = speed_buf[Len(speed_buf)]]_vars

C9_Witness ==
    /\ lastOp.op = "speed_tick"
    /\ Len(sent) = 1
    /\ sent[1].name = "streamFile"
    /\ "eta" \in DOMAIN patched

(* C10: after shutdown() a producer call that pushes to a dispatcher does   *)
(* not raise and its item is dropped: it reaches no buffer, so no remote    *)
(* call forwards it.                                                        *)
C10_PushAfterShutdownDropped ==
    [][(shutting_down /\ ProducerCall
            /\ lastOp'.op \in {"metric", "log", "step"}) =>
          /\ ~lastOp'.raised
          /\ metric_buf' = metric_buf
          /\ log_buf' = log_buf
          /\ speed_buf' = speed_buf]_vars

(* C11: every iteration(current, total) call patches eta = rate times the   *)
(* remaining iterations, the rate being the mean diff of the window (0 for  *)
(* an empty window) and the remaining iterations the known total minus      *)
(* current; it patches eta = 0 when no iteration remains.                   *)
C11_IterationEta ==
    [][lastOp'.op = "iteration" =>
          LET w == seconds_per_iterations'
              left == job_iterations' - job_iteration'
          IN  patched'["eta"] =
                  IF left > 0 /\ w # <<>>
                  THEN Rat(DiffTotal(w, Len(w)) * left, Len(w))
                  ELSE Rat(0, 1)]_vars

C14_StepTotalZeroNoEffect ==
    [][(\E c \in Currents, z \in Sizes : Step(c, 0, z)) =>
          /\ patched' = patched
          /\ seconds_per_iterations' = seconds_per_iterations
          /\ last_batch_time' = last_batch_time
          /\ speed_buf' = speed_buf]_vars

(* C19: iteration() and step() record into separate rolling windows: a     *)
(* step() call leaves the window and the rate that iteration() reads and    *)
(* reports from as they were, so interleaved step() calls cannot change     *)
(* what iteration() reports.                                                *)
C19_StepLeavesIterationWindow ==
    [][lastOp'.op = "step" =>
          /\ seconds_per_iterations' = seconds_per_iterations
          /\ seconds_per_iteration' = seconds_per_iteration]_vars

(* C20: every eta patched by iteration() or step() is non-negative, and it  *)
(* is 0 while the current iteration has reached the known total or the      *)
(* total is unknown.                                                        *)
C20_EtaNonNegative ==
    "eta" \in DOMAIN patched =>
        /\ patched["eta"].num >= 0
        /\ job_iteration >= job_iterations => patched["eta"].num = 0

(* C13: the watched set of the debugger behaves as a set: a layer is        *)
(* watched exactly when the latest call naming it was a start; starting a   *)
(* watched layer and stopping an unwatched one change nothing and raise     *)
(* nothing; a call for one layer never changes whether another is watched.  *)
C13_WatchedSet ==
    [][lastOp'.op \in {"debugStartWatchLayer", "debugStopWatchLayer"} =>
          /\ ~lastOp'.raised
          /\ \A id \in Layers :
                 id \in watching_layers' <=> lastWatch'[id] = "start"
          /\ \A id \in Layers \ {lastOp'.name} :
                 id \in watching_layers' <=> id \in watching_layers
          /\ (lastOp'.op = "debugStartWatchLayer"
                  /\ lastOp'.name \in watching_layers)
                 => watching_layers' = watching_layers
          /\ (lastOp'.op = "debugStopWatchLayer"
                  /\ lastOp'.name \notin watching_layers)
                 => watching_layers' = watching_layers]_vars

C13_Witness ==
    /\ lastOp = Op("debugStopWatchLayer", "fc", FALSE)
    /\ lastWatch["conv1"] = "start" /\ "conv1" \in watching_layers
    /\ lastWatch["conv2"] = "stop" /\ "conv2" \notin watching_layers
    /\ lastWatch["out"] = "none"
    /\ snapshots > 0

(* C16: every connected = true event, reconnects included, registers the    *)
(* debugger controller once under 'job/<id>/debugger' and, exactly when in  *)
(* self-execution, the job controller once under 'job/<id>', and nothing    *)
(* else; a connected = false event registers nothing; the registered        *)
(* objects are the ones made at construction, and the watched set of the    *)
(* debugger is unchanged by the event.                                      *)
Registered(regs, name, controller) ==
    Cardinality({i \in DOMAIN regs :
                    regs[i] = [name |-> name, controller |-> controller]})

C16_RegisteredPerConnect ==
    [][lastOp'.op = "on_connect" =>
          LET new == SubSeq(registrations', Len(registrations) + 1,
                            Len(registrations'))
              jobs == IF self_execution THEN 1 ELSE 0
          IN  /\ IsPrefix(registrations, registrations')
              /\ lastOp'.name = "false" => new = <<>>
              /\ lastOp'.name = "true" =>
                     /\ Registered(new, "job/7/debugger",
                                   "JobDebuggerController#1") = 1
                     /\ Registered(new, "job/7", "JobController#1") = jobs
                     /\ Len(new) = 1 + jobs
              /\ watching_layers' = watching_layers]_vars

C16_Witness ==
    /\ lastOp = Op("on_connect", "true", FALSE)
    /\ self_execution
    /\ nConnects = 3
    /\ Len(registrations) = 4
    /\ watching_layers # {}

(* C15: a hardware sample that fails on one tick is skipped for that tick   *)
(* only: the failed tick emits nothing, and every tick after it whose       *)
(* sample succeeds still emits its hardware row.                            *)
C15_SamplingFailureSkipsOneTick ==
    [][lastOp'.op = "hardware_tick" =>
          IF lastOp'.name = "fail" THEN sent' = sent
          ELSE /\ Len(sent') = Len(sent) + 1
               /\ IsPrefix(sent, sent')
               /\ sent'[Len(sent')].name = "streamFile"
               /\ sent'[Len(sent')].args[1]
                      = ".deepkit/hardware/main_0.hardware"]_vars

(* C17: under every interleaving of a push with the timer tick and the     *)
(* final flush of shutdown, each pushed item is handed to the flush         *)
(* callback in exactly one batch: a push that completes before the close    *)
(* adds its item once to the pending window, and a tick or the final flush  *)
(* hands over exactly the pending window and empties it.                    *)
C17_ExactlyOneBatch ==
    [][/\ (lastOp'.op = "log" /\ inflight # <<>> /\ ~shutting_down) =>
              log_buf' = Append(log_buf, inflight[1].item)
       /\ lastOp'.op = "log_tick" =>
              (Flushed = on_log(log_buf) /\ log_buf' = <<>>)
       /\ (lastOp'.op = "shutdown" /\ ~shutting_down) =>
              (Contains(Flushed, on_log(log_buf)) /\ log_buf' = <<>>)]_vars

(* C18: once shutdown() has closed the connection, no tick of a timer      *)
(* (hardware sampler, speed, metrics, log) issues a further job_action.     *)
C18_NoTickAfterClose ==
    [][(closeCalls >= 1
            /\ lastOp'.op \in {"hardware_tick", "speed_tick", "metric_tick",
                                "log_tick"})
          => sent' = sent]_vars

====
